---- MODULE Spec2Model ----
(***************************************************************************)
(* A model of the RAGU web front end: the Chat/Files tab persistence       *)
(* script, the Vue chat components (tag based and collection based), the   *)
(* React PDF upload component and the WebSocket chat protocol.             *)
(*                                                                         *)
(* The components share no state, so each has a specification of its own   *)
(* (SpecTab, SpecChat, SpecUpload, SpecWs); Spec is their disjoint union,   *)
(* with the variable page naming the component a behaviour exercises.      *)
(* SpecConv follows the tag based chat component through conversation      *)
(* switches and tag changes, SpecTags through its tag dropdown.            *)
(***************************************************************************)
EXTENDS Integers, Sequences, FiniteSets, TLC

VARIABLES
    page,            \* the component a behaviour exercises
    \* ---- tab persistence script (index.html)
    storedTab,       \* localStorage 'activeTab' ("null" when absent)
    active,          \* element -> whether its classList holds 'active'
    markup,          \* the classes of the static markup, restored by a reload
    tabPhase,        \* "parsed": the page-load code has not run; "ready": it has
    activeTabRead,   \* the page-load code's const activeTab
    lastClicked,     \* the menu item clicked last ("none" before any click)
    tabLast          \* the last thing that ran: "none", "load", "click"

tabVars == <<storedTab, active, markup, tabPhase, activeTabRead, lastClicked, tabLast>>

VARIABLES
    \* ---- Vue chat component (model-query.js)
    variant,                \* "tags": the tag based component; "collection": the collection based one
    selectedCollection,     \* ref selectedCollection ("" when none)
    queryText,              \* ref queryText, a sequence of characters
    conversationHistory,    \* ref conversationHistory, a sequence of messages
    isLoading,              \* ref isLoading
    error,                  \* ref error
    currentConversationId,  \* ref currentConversationId (0 for null)
    calls,                  \* invocation -> the submitQuery invocation's locals and position
    nextCall,               \* the number of submitQuery invocations that passed canSubmit
    chatPosts,              \* invocation -> the POSTs to /api/v1/chat/ it has sent
    tagsInFlight,           \* whether a fetchTags request is in flight
    chatLast                \* the submitQuery or fetchTags step that ran last

chatVars == <<variant, selectedCollection, queryText, conversationHistory, isLoading,
              error, currentConversationId, calls, nextCall, chatPosts, tagsInFlight,
              chatLast>>

VARIABLES
    \* ---- React PDF upload component (pdf-upload.js)
    files,             \* state files, the selected-file list
    isUploading,       \* state isUploading
    uploadStatus,      \* state uploadStatus (NoStatus for null)
    uploadCollection,  \* state selectedCollection ("" when none)
    batch,             \* the latest uploadFiles invocation: its files and its requests
    upPosts            \* per file of that invocation, the POSTs to /api/v1/documents/upload sent

upVars == <<files, isUploading, uploadStatus, uploadCollection, batch, upPosts>>

VARIABLES
    \* ---- WebSocket chat (/api/v1/chat/ws) and the README's client
    wsServer,        \* the endpoint's position in answering the chat message
    wsSent,          \* the messages the endpoint has sent for that chat message
    wsInbox,         \* the messages sent and not yet received by the client
    wsClient,        \* chat_websocket's position
    full_response,   \* chat_websocket's full_response
    wsReturned       \* what chat_websocket returned

wsVars == <<wsServer, wsSent, wsInbox, wsClient, full_response, wsReturned>>

VARIABLES
    \* ---- tag based chat component: tags and conversations
    selectedTags,      \* ref selectedTags, a sequence of tags
    availableTags,     \* ref availableTags
    tagCounts,         \* ref tagCounts: tag -> document count, for the tags it has
    tagSearchQuery,    \* ref tagSearchQuery
    sel,               \* the selectConversation invocation in flight: position, id, response
    tagUpdateTimeout,  \* the conversation id the pending debounce timer holds (0: none pending)
    switched           \* the submitQuery invocations that were in flight when the user switched conversation

convVars == <<selectedTags, availableTags, tagCounts, tagSearchQuery, sel,
              tagUpdateTimeout, switched>>

VARIABLES
    \* ---- the conversations' tag preferences
    serverTags,        \* conversation -> the tags the server stores for it (the last PUT's)
    tagsWhile          \* conversation -> the selection as last made or loaded while it was current

prefVars == <<serverTags, tagsWhile>>

vars == <<page, tabVars, chatVars, upVars, wsVars, convVars, prefVars>>

notTab == <<page, chatVars, upVars, wsVars, convVars, prefVars>>
notChat == <<page, tabVars, upVars, wsVars, convVars>>
notUpload == <<page, tabVars, chatVars, wsVars, convVars, prefVars>>
notWs == <<page, tabVars, chatVars, upVars, convVars, prefVars>>

(***************************************************************************)
(* Tab persistence                                                         *)
(***************************************************************************)

Elements == {"chatMenuItem", "filesMenuItem", "chatInterface", "fileManagement"}

\* What localStorage may hold under the key when the page is opened: nothing,
\* the two values the script writes, and values it never writes.
StoredValues == {"null", "chat", "files", "Files", ""}

\* classList.add('active') / classList.remove('active') on one element
ClassAdd(cl, e) == [cl EXCEPT ![e] = TRUE]
ClassRemove(cl, e) == [cl EXCEPT ![e] = FALSE]

\* A setActiveTab that updates the classes and forgets to save the preference.
setActiveTabNoSave(tabName) ==
    /\ storedTab' = storedTab
    /\ active' =
         IF tabName = "chat"
         THEN ClassRemove(ClassAdd(ClassRemove(ClassAdd(active, "chatMenuItem"),
                  "filesMenuItem"), "chatInterface"), "fileManagement")
         ELSE IF tabName = "files"
         THEN ClassRemove(ClassAdd(ClassRemove(ClassAdd(active, "filesMenuItem"),
                  "chatMenuItem"), "fileManagement"), "chatInterface")
         ELSE active

\* A setActiveTab that shows the clicked tab without hiding the other one.
setActiveTabNoRemove(tabName) ==
    /\ storedTab' = tabName
    /\ active' =
         IF tabName = "chat"
         THEN ClassAdd(ClassAdd(active, "chatMenuItem"), "chatInterface")
         ELSE IF tabName = "files"
         THEN ClassAdd(ClassAdd(active, "filesMenuItem"), "fileManagement")
         ELSE active

\* function setActiveTab(tabName)
setActiveTab(tabName) ==
    /\ storedTab' = tabName
    /\ active' =
         IF tabName = "chat"
         THEN ClassRemove(ClassAdd(ClassRemove(ClassAdd(active, "chatMenuItem"),
                  "filesMenuItem"), "chatInterface"), "fileManagement")
         ELSE IF tabName = "files"
         THEN ClassRemove(ClassAdd(ClassRemove(ClassAdd(active, "filesMenuItem"),
                  "chatMenuItem"), "fileManagement"), "chatInterface")
         ELSE active

\* A page-load check that compares against 'chat' and defaults to Files.
RestoredTabDefaultFiles(stored) == IF stored = "chat" THEN "chat" ELSE "files"

\* The tab the page-load code activates for the value it read.
RestoredTab(stored) == IF stored = "files" THEN "files" ELSE "chat"

\* chatMenuItem click handler
ClickChat ==
    /\ tabPhase = "ready"
    /\ setActiveTab("chat")
    /\ lastClicked' = "chat"
    /\ tabLast' = "click"
    /\ UNCHANGED <<notTab, markup, tabPhase, activeTabRead>>

\* filesMenuItem click handler
ClickFiles ==
    /\ tabPhase = "ready"
    /\ setActiveTab("files")
    /\ lastClicked' = "files"
    /\ tabLast' = "click"
    /\ UNCHANGED <<notTab, markup, tabPhase, activeTabRead>>

\* The code that runs when the page loads.
PageLoad ==
    /\ tabPhase = "parsed"
    /\ activeTabRead' = storedTab
    /\ setActiveTab(RestoredTab(storedTab))
    /\ tabPhase' = "ready"
    /\ tabLast' = "load"
    /\ UNCHANGED <<notTab, markup, lastClicked>>

\* The user reloads the page: the document is parsed again from the static
\* markup, localStorage is kept, and the page-load code is about to run.
Reload ==
    /\ tabPhase = "ready"
    /\ active' = markup
    /\ tabPhase' = "parsed"
    /\ activeTabRead' = "unread"
    /\ tabLast' = "none"
    /\ UNCHANGED <<notTab, storedTab, markup, lastClicked>>

TabBase ==
    /\ storedTab = "null"
    /\ active = [e \in Elements |-> FALSE]
    /\ markup = [e \in Elements |-> FALSE]
    /\ tabPhase = "parsed"
    /\ activeTabRead = "unread"
    /\ lastClicked = "none"
    /\ tabLast = "none"

TabStart ==
    /\ storedTab \in StoredValues
    /\ markup \in [Elements -> BOOLEAN]
    /\ active = markup
    /\ tabPhase = "parsed"
    /\ activeTabRead = "unread"
    /\ lastClicked = "none"
    /\ tabLast = "none"

NextTab ==
    ClickChat \/ ClickFiles \/ PageLoad \/ Reload


\* The tab shown as active: both its menu item and its panel carry 'active'.
TabActive(t) ==
    IF t = "chat" THEN active["chatMenuItem"] /\ active["chatInterface"]
    ELSE active["filesMenuItem"] /\ active["fileManagement"]

TabInactive(t) ==
    IF t = "chat" THEN ~active["chatMenuItem"] /\ ~active["chatInterface"]
    ELSE ~active["filesMenuItem"] /\ ~active["fileManagement"]

OtherTab(t) == IF t = "chat" THEN "files" ELSE "chat"

\* C1: after clicks on the Chat and Files menu items followed by a reload,
\* the tab the page-load code makes active is the tab that was clicked last.
TabRoundTrip ==
    (tabLast = "load" /\ lastClicked # "none")
        => (TabActive(lastClicked) /\ TabInactive(OtherTab(lastClicked)))

TabRoundTripWitness ==
    tabLast = "load" /\ lastClicked = "files" /\ TabActive("files")

\* C2: on page load the Files tab is activated if and only if localStorage
\* 'activeTab' held exactly 'files'; for every other value, and for no value,
\* the Chat tab is activated.
PageLoadDefault ==
    tabLast = "load" =>
        /\ (TabActive("files") <=> activeTabRead = "files")
        /\ (activeTabRead # "files" => (TabActive("chat") /\ TabInactive("files")))
        /\ (activeTabRead = "files" => TabInactive("chat"))

PageLoadDefaultWitness ==
    tabLast = "load" /\ activeTabRead = "Files" /\ TabActive("chat")

\* C3: after every setActiveTab(t), t being 'chat' or 'files', localStorage
\* 'activeTab' equals t, the menu item and panel of t carry 'active' and those
\* of the other tab do not: once the script has run, exactly one tab is active
\* and it is the stored preference.
OneActiveTab ==
    tabPhase = "ready" =>
        /\ storedTab \in {"chat", "files"}
        /\ TabActive(storedTab)
        /\ TabInactive(OtherTab(storedTab))
        /\ (tabLast = "click" => storedTab = lastClicked)

OneActiveTabWitness ==
    /\ tabLast = "click" /\ storedTab = "files" /\ TabActive("files")
    /\ markup["chatMenuItem"] /\ markup["chatInterface"]

(***************************************************************************)
(* Vue chat component: submitQuery                                         *)
(***************************************************************************)

\* The texts the user types into the textarea: empty, blanks only, a word, and
\* a word after a blank.
Texts == {<<>>, <<" ">>, <<"a">>, <<" ", "a">>}

\* The submitQuery invocations of one behaviour.
MaxCalls == 2
Calls == 1..MaxCalls

\* The conversations the sidebar lists when the component is mounted, and all
\* conversations: those and the ones the chat endpoint creates (ServerChat).
StoredConversations == {11, 12}
ConversationIds == Calls \cup StoredConversations

RECURSIVE TrimStart(_)
TrimStart(s) == IF s # <<>> /\ Head(s) = " " THEN TrimStart(Tail(s)) ELSE s

RECURSIVE TrimEnd(_)
TrimEnd(s) ==
    IF s # <<>> /\ s[Len(s)] = " " THEN TrimEnd(SubSeq(s, 1, Len(s) - 1)) ELSE s

\* String.prototype.trim
Trim(s) == TrimEnd(TrimStart(s))

\* Array.prototype.pop, for its effect on the array
Pop(s) == IF s = <<>> THEN s ELSE SubSeq(s, 1, Len(s) - 1)

\* Array.prototype.slice(0, -1)
SliceAllButLast(s) == IF s = <<>> THEN s ELSE SubSeq(s, 1, Len(s) - 1)

UserMessage(q) == [role |-> "user", content |-> q]
AssistantMessage(a) == [role |-> "assistant", content |-> a]

\* The collections the dropdown offers, "" being "Select a collection".
CollectionChoices == {"", "docs"}

\* The detail strings of a JSON error body.
Details == {"", "Collection not found"}

FallbackMessage == "Failed to process query. Please try again."
SubmitErrorMessage == "Error submitting query"
TagsErrorMessage == "Failed to fetch tags. Please try again."

IdleCall == [pc |-> "idle", currentQuery |-> <<>>, history |-> <<>>, conversation_id |-> 0]

\* computed canSubmit
canSubmit ==
    IF variant = "tags"
    THEN Len(Trim(queryText)) > 0
    ELSE selectedCollection # "" /\ Len(Trim(queryText)) > 0

\* The chat endpoint's answer to a request it accepts: the history it was
\* sent, the user's query and the assistant's answer, under the request's
\* conversation or a new one.
Answer == <<"r">>
ServerChat(i) ==
    [history |-> calls[i].history \o
                    <<UserMessage(calls[i].currentQuery), AssistantMessage(Answer)>>,
     conversation_id |-> IF calls[i].conversation_id # 0
                         THEN calls[i].conversation_id ELSE i]

\* submitQuery up to its await fetch(...), run as invocation i
SubmitQuerySend(i) ==
    /\ calls[i].pc = "idle"
    /\ IF variant = "tags"
       THEN /\ conversationHistory' = Append(conversationHistory, UserMessage(queryText))
            /\ calls' = [calls EXCEPT ![i] =
                    [pc |-> "fetch",
                     currentQuery |-> queryText,
                     history |-> SliceAllButLast(
                                     Append(conversationHistory, UserMessage(queryText))),
                     conversation_id |-> currentConversationId]]
       ELSE /\ conversationHistory' = conversationHistory
            /\ calls' = [calls EXCEPT ![i] =
                    [pc |-> "fetch",
                     currentQuery |-> queryText,
                     history |-> conversationHistory,
                     conversation_id |-> 0]]
    /\ queryText' = <<>>
    /\ isLoading' = TRUE
    /\ error' = ""
    /\ chatPosts' = [chatPosts EXCEPT ![i] = @ + 1]
    /\ nextCall' = i
    /\ chatLast' = [kind |-> "sent", call |-> i]
    /\ UNCHANGED <<variant, selectedCollection, currentConversationId, tagsInFlight>>

\* A submitQuery without its guard.
submitQueryUnguarded ==
    /\ nextCall < MaxCalls
    /\ SubmitQuerySend(nextCall + 1)

\* const submitQuery = async () => { if (!canSubmit.value) return; ...
submitQuery ==
    IF ~canSubmit
    THEN /\ chatLast' = [kind |-> "rejected", call |-> 0]
         /\ UNCHANGED <<variant, selectedCollection, queryText, conversationHistory,
                        isLoading, error, currentConversationId, calls, nextCall,
                        chatPosts, tagsInFlight>>
    ELSE /\ nextCall < MaxCalls
         /\ SubmitQuerySend(nextCall + 1)

\* The Send button, which is disabled while isLoading || !canSubmit
ClickSend ==
    /\ ~(isLoading \/ ~canSubmit)
    /\ submitQuery
    /\ UNCHANGED <<notChat, prefVars>>

\* handleEnterKey, for Enter without Shift
PressEnter ==
    /\ Len(Trim(queryText)) > 0
    /\ submitQuery
    /\ UNCHANGED <<notChat, prefVars>>

\* The textarea's v-model
TypeQuery(q) ==
    /\ queryText' = q
    /\ UNCHANGED <<variant, selectedCollection, conversationHistory, isLoading, error,
                   currentConversationId, calls, nextCall, chatPosts, tagsInFlight,
                   chatLast>>
    /\ UNCHANGED <<notChat, prefVars>>

\* The collection dropdown's v-model (collection based component)
SelectCollection(c) ==
    /\ variant = "collection"
    /\ selectedCollection' = c
    /\ UNCHANGED <<variant, queryText, conversationHistory, isLoading, error,
                   currentConversationId, calls, nextCall, chatPosts, tagsInFlight,
                   chatLast>>
    /\ UNCHANGED <<notChat, prefVars>>

\* const updateConversationTagPreferences = async (conversationId) => ...: a
\* PUT of the selection as it is when the call is made.  The server stores
\* what it is sent; the response is only logged.
updateConversationTagPreferences(conversationId) ==
    serverTags' = [serverTags EXCEPT ![conversationId] = selectedTags]

\* A catch block that sends the request again.
SubmitCatchRetry(i) ==
    /\ chatPosts' = [chatPosts EXCEPT ![i] = @ + 1]
    /\ calls' = [calls EXCEPT ![i].pc = "fetch"]
    /\ error' = SubmitErrorMessage
    /\ chatLast' = [kind |-> "threw", call |-> i]
    /\ UNCHANGED <<variant, selectedCollection, queryText, conversationHistory, isLoading,
                   currentConversationId, nextCall, tagsInFlight>>

\* catch (err) { ... } finally { isLoading.value = false; }
SubmitCatch(i) ==
    /\ IF variant = "tags"
       THEN /\ conversationHistory' = Pop(conversationHistory)
            /\ queryText' = calls[i].currentQuery
       ELSE UNCHANGED <<conversationHistory, queryText>>
    /\ error' = SubmitErrorMessage
    /\ isLoading' = FALSE
    /\ calls' = [calls EXCEPT ![i].pc = "done"]
    /\ chatLast' = [kind |-> "threw", call |-> i]
    /\ UNCHANGED <<variant, selectedCollection, currentConversationId, nextCall,
                   chatPosts, tagsInFlight>>

\* await fetch('/api/v1/chat/', ...) settles: it rejects ("throw"), or resolves
\* with an OK response ("ok") or with another status ("status").
FetchSettles(i, outcome) ==
    /\ calls[i].pc = "fetch"
    /\ CASE outcome = "throw" -> SubmitCatch(i)
         [] outcome = "ok" ->
              /\ calls' = [calls EXCEPT ![i].pc = "jsonOk"]
              /\ chatLast' = [kind |-> "responseOk", call |-> i]
              /\ UNCHANGED <<variant, selectedCollection, queryText, conversationHistory,
                             isLoading, error, currentConversationId, nextCall,
                             chatPosts, tagsInFlight>>
         [] outcome = "status" ->
              /\ IF variant = "tags"
                 THEN conversationHistory' = Pop(conversationHistory)
                 ELSE conversationHistory' = conversationHistory
              /\ queryText' = calls[i].currentQuery
              /\ calls' = [calls EXCEPT ![i].pc = "jsonErr"]
              /\ chatLast' = [kind |-> "responseStatus", call |-> i]
              /\ UNCHANGED <<variant, selectedCollection, isLoading, error,
                             currentConversationId, nextCall, chatPosts, tagsInFlight>>
    /\ UNCHANGED <<notChat, prefVars>>

\* An OK branch that appends the answer instead of taking the server's history.
SubmitOkAppend(i, data) ==
    /\ conversationHistory' = Append(conversationHistory, data.history[Len(data.history)])
    /\ IF variant = "tags"
       THEN /\ currentConversationId' =
                  IF data.conversation_id # 0 THEN data.conversation_id
                  ELSE currentConversationId
            /\ IF data.conversation_id # 0
               THEN /\ updateConversationTagPreferences(data.conversation_id)
                    /\ tagsWhile' = [tagsWhile EXCEPT ![data.conversation_id] = selectedTags]
               ELSE UNCHANGED prefVars
            /\ tagsInFlight' = TRUE
       ELSE UNCHANGED <<currentConversationId, tagsInFlight, prefVars>>
    /\ isLoading' = FALSE
    /\ calls' = [calls EXCEPT ![i].pc = "done"]
    /\ chatLast' = [kind |-> "ok", call |-> i]
    /\ UNCHANGED <<variant, selectedCollection, queryText, error, nextCall, chatPosts>>

\* The OK branch after const data = await response.json()
SubmitOk(i, data) ==
    /\ conversationHistory' = data.history
    /\ IF variant = "tags"
       THEN /\ currentConversationId' =
                  IF data.conversation_id # 0 THEN data.conversation_id
                  ELSE currentConversationId
            /\ IF data.conversation_id # 0
               THEN /\ updateConversationTagPreferences(data.conversation_id)
                    /\ tagsWhile' = [tagsWhile EXCEPT ![data.conversation_id] = selectedTags]
               ELSE UNCHANGED prefVars
            /\ tagsInFlight' = TRUE
       ELSE UNCHANGED <<currentConversationId, tagsInFlight, prefVars>>
    /\ isLoading' = FALSE
    /\ calls' = [calls EXCEPT ![i].pc = "done"]
    /\ chatLast' = [kind |-> "ok", call |-> i]
    /\ UNCHANGED <<variant, selectedCollection, queryText, error, nextCall, chatPosts>>

\* await response.json() of an OK response settles: parsed, or it throws.
JsonOkSettles(i, parsed) ==
    /\ calls[i].pc = "jsonOk"
    /\ IF parsed
       THEN SubmitOk(i, ServerChat(i))
       ELSE SubmitCatch(i) /\ UNCHANGED prefVars
    /\ UNCHANGED notChat

\* An error branch that shows the fixed message whatever the body says.
DetailIgnored(d) == FallbackMessage

\* error.value = errorData.detail || 'Failed to process query. Please try again.'
DetailOrFallback(d) == IF d # "" THEN d ELSE FallbackMessage

\* The non-OK branch after const errorData = await response.json()
SubmitStatus(i, d) ==
    /\ error' = DetailOrFallback(d)
    /\ isLoading' = FALSE
    /\ calls' = [calls EXCEPT ![i].pc = "done"]
    /\ chatLast' = [kind |-> "status", call |-> i]
    /\ UNCHANGED <<variant, selectedCollection, queryText, conversationHistory,
                   currentConversationId, nextCall, chatPosts, tagsInFlight>>

\* await response.json() of a non-OK response settles: a body {"detail": d},
\* or a body that is not JSON, for which it throws.
JsonErrSettles(i, parsed, d) ==
    /\ calls[i].pc = "jsonErr"
    /\ IF parsed THEN SubmitStatus(i, d) ELSE d = "" /\ SubmitCatch(i)
    /\ UNCHANGED <<notChat, prefVars>>

\* window focus, visibilitychange, tabSwitch: fetchTags()
RefreshTags ==
    /\ variant = "tags"
    /\ ~tagsInFlight
    /\ tagsInFlight' = TRUE
    /\ UNCHANGED <<variant, selectedCollection, queryText, conversationHistory, isLoading,
                   error, currentConversationId, calls, nextCall, chatPosts, chatLast>>
    /\ UNCHANGED <<notChat, prefVars>>

\* fetchTags' request settles; a failure shows in error.
FetchTagsSettles(ok) ==
    /\ tagsInFlight
    /\ tagsInFlight' = FALSE
    /\ error' = IF ok THEN error ELSE TagsErrorMessage
    /\ chatLast' = [kind |-> "tags", call |-> 0]
    /\ UNCHANGED <<variant, selectedCollection, queryText, conversationHistory, isLoading,
                   currentConversationId, calls, nextCall, chatPosts>>
    /\ UNCHANGED <<notChat, prefVars>>

ChatBase ==
    /\ variant = "tags"
    /\ selectedCollection = ""
    /\ queryText = <<>>
    /\ conversationHistory = <<>>
    /\ isLoading = FALSE
    /\ error = ""
    /\ currentConversationId = 0
    /\ calls = [i \in Calls |-> IdleCall]
    /\ nextCall = 0
    /\ chatPosts = [i \in Calls |-> 0]
    /\ tagsInFlight = FALSE
    /\ chatLast = [kind |-> "none", call |-> 0]

\* The component once mounted: fetchCollections has selected the first
\* collection when there is one.
ChatStart ==
    /\ variant \in {"tags", "collection"}
    /\ selectedCollection \in (IF variant = "tags" THEN {""} ELSE CollectionChoices)
    /\ queryText = <<>>
    /\ conversationHistory = <<>>
    /\ isLoading = FALSE
    /\ error = ""
    /\ currentConversationId = 0
    /\ calls = [i \in Calls |-> IdleCall]
    /\ nextCall = 0
    /\ chatPosts = [i \in Calls |-> 0]
    /\ tagsInFlight = FALSE
    /\ chatLast = [kind |-> "none", call |-> 0]

NextChat ==
    \/ ClickSend
    \/ PressEnter
    \/ \E q \in Texts : TypeQuery(q)
    \/ \E c \in CollectionChoices : SelectCollection(c)
    \/ \E i \in Calls, outcome \in {"throw", "ok", "status"} : FetchSettles(i, outcome)
    \/ \E i \in Calls, parsed \in BOOLEAN : JsonOkSettles(i, parsed)
    \/ \E i \in Calls, parsed \in BOOLEAN, d \in Details : JsonErrSettles(i, parsed, d)
    \/ RefreshTags
    \/ \E ok \in BOOLEAN : FetchTagsSettles(ok)

(***************************************************************************)
(* Tag based chat component: tag selection, conversations, tag preferences *)
(*                                                                         *)
(* includeUntagged and selectedModel, which are loaded and sent the way    *)
(* selectedTags is, are left out.  The tag search box holds blank text     *)
(* only, so the Fuse.js branch of availableTagsForSelection is not taken.  *)
(***************************************************************************)

\* Tag names, as sequences of characters.
TagA == <<"a">>
TagAb == <<"a", "b">>
TagB == <<"b">>
TagNames == {TagA, TagAb, TagB}

\* What the user leaves in the tag search box.
BlankQueries == {<<>>, <<" ">>}

\* The document counts fetchTags may deliver for a tag.
Counts == {0, 1}

\* The bodies fetchTags may receive: the tags in any order, each once, and a
\* count for some of them.
TagLists ==
    {tags \in UNION {[1..n -> TagNames] : n \in 0..Cardinality(TagNames)} :
        \A j, k \in DOMAIN tags : j # k => tags[j] # tags[k]}
CountMaps == UNION {[D -> Counts] : D \in SUBSET TagNames}
TagData == [tags : TagLists, tag_counts : CountMaps]

\* Array.prototype.includes
Includes(s, x) == \E k \in DOMAIN s : s[k] = x

\* Array.prototype.indexOf, counted from 1 (0: not found)
IndexOf(s, x) == IF Includes(s, x) THEN CHOOSE k \in DOMAIN s : s[k] = x /\ \A j \in 1..(k - 1) : s[j] # x ELSE 0

\* Array.prototype.splice(index, 1), index counted from 1
Splice(s, index) == [k \in 1..(Len(s) - 1) |-> IF k < index THEN s[k] ELSE s[k + 1]]

\* The collation of the letters tag names are made of.
LetterRank(c) ==
    CASE c = "a" -> 1
      [] c = "b" -> 2
      [] OTHER -> 3

\* a.localeCompare(b): negative, zero or positive
RECURSIVE LocaleCompare(_, _)
LocaleCompare(a, b) ==
    IF a = <<>> /\ b = <<>> THEN 0
    ELSE IF a = <<>> THEN -1
    ELSE IF b = <<>> THEN 1
    ELSE IF LetterRank(Head(a)) < LetterRank(Head(b)) THEN -1
    ELSE IF LetterRank(Head(a)) > LetterRank(Head(b)) THEN 1
    ELSE LocaleCompare(Tail(a), Tail(b))

\* tagCounts.value[tag] || 0
CountOf(tag) == IF tag \in DOMAIN tagCounts THEN tagCounts[tag] ELSE 0

\* A comparator that orders by name only.
CompareTagsByName(a, b) == LocaleCompare(a, b)

\* The comparator handed to sort: count descending, then name
CompareTags(a, b) ==
    LET countDiff == CountOf(b) - CountOf(a) IN
    IF countDiff # 0 THEN countDiff ELSE LocaleCompare(a, b)

\* Array.prototype.sort(compare), which is stable: an insertion sort
RECURSIVE InsertSorted(_, _)
InsertSorted(x, sorted) ==
    IF sorted = <<>> THEN <<x>>
    ELSE IF CompareTags(x, Head(sorted)) < 0 THEN <<x>> \o sorted
    ELSE <<Head(sorted)>> \o InsertSorted(x, Tail(sorted))

RECURSIVE SortTags(_)
SortTags(s) ==
    IF s = <<>> THEN <<>>
    ELSE InsertSorted(s[Len(s)], SortTags(SubSeq(s, 1, Len(s) - 1)))

\* computed availableTagsForSelection, for a blank tagSearchQuery
availableTagsForSelection ==
    LET unselectedTags == SelectSeq(availableTags, LAMBDA tag : ~Includes(selectedTags, tag))
        sorted == SortTags(unselectedTags)
    IN [k \in DOMAIN sorted |-> [item |-> sorted[k]]]

\* The component's other state, which the tag and conversation handlers
\* leave alone.
notConv == <<page, tabVars, upVars, wsVars>>

\* The submitQuery invocations that have sent their request and not finished.
SubmitsInFlight == {i \in Calls : calls[i].pc \in {"fetch", "jsonOk", "jsonErr"}}

NoConversation == [messages |-> <<>>, tags |-> <<>>]
IdleSel == [pc |-> "idle", conversationId |-> 0, conversation |-> NoConversation]

LoadErrorMessage == "Failed to load conversation"

\* The tags and the messages the server holds for the listed conversations
\* when the component is mounted.
StoredTags(c) == IF c = 12 THEN <<TagB>> ELSE <<>>
StoredMessages(c) ==
    IF c = 12
    THEN <<UserMessage(<<" ", "a">>), AssistantMessage(Answer)>>
    ELSE <<UserMessage(<<"a">>), AssistantMessage(Answer)>>

\* GET /api/v1/conversations/{id}: the conversation as the server holds it
ServerConversation(c) == [messages |-> StoredMessages(c), tags |-> serverTags[c]]

\* const debouncedUpdateConversationTagPreferences = (conversationId) => ...:
\* clearTimeout of the pending timer, and a new timer that holds conversationId
debouncedUpdateConversationTagPreferences(conversationId) ==
    tagUpdateTimeout' = conversationId

\* watch(selectedTags, ..., { deep: true }), run after the handler that wrote
\* selectedTags
WatchSelectedTags ==
    IF currentConversationId' # 0
    THEN debouncedUpdateConversationTagPreferences(currentConversationId')
    ELSE UNCHANGED tagUpdateTimeout

\* The selection the user makes while a conversation is current is that
\* conversation's.
SelectionMade ==
    tagsWhile' = IF currentConversationId # 0
                 THEN [tagsWhile EXCEPT ![currentConversationId] = selectedTags']
                 ELSE tagsWhile

\* const addTag = (tag) => ...
addTag(tag) ==
    IF ~Includes(selectedTags, tag)
    THEN /\ selectedTags' = Append(selectedTags, tag)
         /\ tagSearchQuery' = <<>>
         /\ UNCHANGED currentConversationId
         /\ WatchSelectedTags
         /\ SelectionMade
    ELSE UNCHANGED <<selectedTags, tagSearchQuery, currentConversationId,
                     tagUpdateTimeout, tagsWhile>>

\* const removeTag = (tag) => ...
removeTag(tag) ==
    LET index == IndexOf(selectedTags, tag) IN
    IF index > 0
    THEN /\ selectedTags' = Splice(selectedTags, index)
         /\ UNCHANGED <<tagSearchQuery, currentConversationId>>
         /\ WatchSelectedTags
         /\ SelectionMade
    ELSE UNCHANGED <<selectedTags, tagSearchQuery, currentConversationId,
                     tagUpdateTimeout, tagsWhile>>

\* A click on an entry of the tag dropdown
PickTag(tag) ==
    /\ Includes(availableTagsForSelection, [item |-> tag])
    /\ addTag(tag)
    /\ UNCHANGED <<variant, selectedCollection, queryText, conversationHistory, isLoading,
                   error, calls, nextCall, chatPosts, tagsInFlight, chatLast>>
    /\ UNCHANGED <<availableTags, tagCounts, sel, switched, serverTags>>
    /\ UNCHANGED notConv

\* A click on the remove button of a selected tag's badge
UnpickTag(tag) ==
    /\ Includes(selectedTags, tag)
    /\ removeTag(tag)
    /\ UNCHANGED <<variant, selectedCollection, queryText, conversationHistory, isLoading,
                   error, calls, nextCall, chatPosts, tagsInFlight, chatLast>>
    /\ UNCHANGED <<availableTags, tagCounts, sel, switched, serverTags>>
    /\ UNCHANGED notConv

\* updateSearchQuery: the tag search box
updateSearchQuery(newValue) ==
    /\ tagSearchQuery' = newValue
    /\ UNCHANGED chatVars
    /\ UNCHANGED <<selectedTags, availableTags, tagCounts, sel, tagUpdateTimeout, switched>>
    /\ UNCHANGED prefVars
    /\ UNCHANGED notConv

\* fetchTags with an OK response: data.tags || [], data.tag_counts || {}
TagsFetched(data) ==
    /\ availableTags' = data.tags
    /\ tagCounts' = data.tag_counts
    /\ UNCHANGED chatVars
    /\ UNCHANGED <<selectedTags, tagSearchQuery, sel, tagUpdateTimeout, switched>>
    /\ UNCHANGED prefVars
    /\ UNCHANGED notConv

\* selectConversation up to its await fetch(...), for a listed conversation
\* that this session has sent no query in
SelectConversation(conversationId) ==
    /\ variant = "tags"
    /\ sel.pc = "idle"
    /\ \A i \in Calls : calls[i].conversation_id # conversationId
    /\ sel' = [pc |-> "fetch", conversationId |-> conversationId,
               conversation |-> NoConversation]
    /\ UNCHANGED chatVars
    /\ UNCHANGED <<selectedTags, availableTags, tagCounts, tagSearchQuery,
                   tagUpdateTimeout, switched>>
    /\ UNCHANGED prefVars
    /\ UNCHANGED notConv

\* selectConversation: the fetch and response.json() settle.  With the
\* conversation it sets currentConversationId and conversationHistory and
\* calls fetchTags; otherwise it shows the error and ends.
ConversationFetched(ok) ==
    /\ sel.pc = "fetch"
    /\ IF ok
       THEN LET conversation == ServerConversation(sel.conversationId) IN
            /\ currentConversationId' = sel.conversationId
            /\ conversationHistory' = conversation.messages
            /\ sel' = [sel EXCEPT !.pc = "tags", !.conversation = conversation]
            /\ UNCHANGED error
       ELSE /\ error' = LoadErrorMessage
            /\ sel' = IdleSel
            /\ UNCHANGED <<currentConversationId, conversationHistory>>
    /\ UNCHANGED <<variant, selectedCollection, queryText, isLoading, calls, nextCall,
                   chatPosts, tagsInFlight, chatLast>>
    /\ UNCHANGED <<selectedTags, availableTags, tagCounts, tagSearchQuery,
                   tagUpdateTimeout, switched>>
    /\ UNCHANGED prefVars
    /\ UNCHANGED notConv

\* selectConversation after await fetchTags(), whose failure only shows in
\* error: selectedTags.value = conversation.tags, and the watcher.  The
\* selection loaded for the conversation that is current is that
\* conversation's; selectConversation has completed.
ConversationTagsFetched(ok) ==
    /\ sel.pc = "tags"
    /\ error' = IF ok THEN error ELSE TagsErrorMessage
    /\ selectedTags' = sel.conversation.tags
    /\ UNCHANGED currentConversationId
    /\ WatchSelectedTags
    /\ tagsWhile' = IF currentConversationId = sel.conversationId
                    THEN [tagsWhile EXCEPT ![sel.conversationId] = sel.conversation.tags]
                    ELSE tagsWhile
    /\ sel' = IdleSel
    /\ switched' = switched \cup SubmitsInFlight
    /\ UNCHANGED <<variant, selectedCollection, queryText, conversationHistory, isLoading,
                   calls, nextCall, chatPosts, tagsInFlight, chatLast>>
    /\ UNCHANGED <<availableTags, tagCounts, tagSearchQuery, serverTags>>
    /\ UNCHANGED notConv

\* const startNewConversation = async () => ...
startNewConversation ==
    /\ variant = "tags"
    /\ currentConversationId' = 0
    /\ conversationHistory' = <<>>
    /\ tagsInFlight' = TRUE
    /\ switched' = switched \cup SubmitsInFlight
    /\ UNCHANGED <<variant, selectedCollection, queryText, isLoading, error, calls,
                   nextCall, chatPosts, chatLast>>
    /\ UNCHANGED <<selectedTags, availableTags, tagCounts, tagSearchQuery, sel,
                   tagUpdateTimeout>>
    /\ UNCHANGED prefVars
    /\ UNCHANGED notConv

\* The debounce timer fires, 500 ms after it was set:
\* updateConversationTagPreferences(conversationId)
TagUpdateTimeoutFires ==
    /\ tagUpdateTimeout # 0
    /\ updateConversationTagPreferences(tagUpdateTimeout)
    /\ tagUpdateTimeout' = 0
    /\ UNCHANGED chatVars
    /\ UNCHANGED <<selectedTags, availableTags, tagCounts, tagSearchQuery, sel, switched,
                   tagsWhile>>
    /\ UNCHANGED notConv

ConvBase ==
    /\ selectedTags = <<>>
    /\ availableTags = <<>>
    /\ tagCounts = [tag \in {} |-> 0]
    /\ tagSearchQuery = <<>>
    /\ sel = IdleSel
    /\ tagUpdateTimeout = 0
    /\ switched = {}
    /\ serverTags = [c \in ConversationIds |-> StoredTags(c)]
    /\ tagsWhile = [c \in ConversationIds |-> StoredTags(c)]

\* The tag based component once mounted, fetchTags having delivered one tag.
ConvStart ==
    /\ selectedTags = <<>>
    /\ availableTags = <<TagB>>
    /\ tagCounts = [tag \in {TagB} |-> 1]
    /\ tagSearchQuery = <<>>
    /\ sel = IdleSel
    /\ tagUpdateTimeout = 0
    /\ switched = {}
    /\ serverTags = [c \in ConversationIds |-> StoredTags(c)]
    /\ tagsWhile = [c \in ConversationIds |-> StoredTags(c)]

\* The Send button, for the session's first query
SendFirstQuery ==
    /\ nextCall = 0
    /\ ClickSend

NextConv ==
    \/ TypeQuery(<<"a">>)
    \/ SendFirstQuery
    \/ \E i \in Calls, outcome \in {"throw", "ok"} : FetchSettles(i, outcome)
    \/ \E i \in Calls : JsonOkSettles(i, TRUE)
    \/ FetchTagsSettles(TRUE)
    \/ \E tag \in TagNames : PickTag(tag)
    \/ \E tag \in TagNames : UnpickTag(tag)
    \/ \E conversationId \in StoredConversations : SelectConversation(conversationId)
    \/ \E ok \in BOOLEAN : ConversationFetched(ok)
    \/ \E ok \in BOOLEAN : ConversationTagsFetched(ok)
    \/ startNewConversation
    \/ TagUpdateTimeoutFires

NextTags ==
    \/ \E data \in TagData : TagsFetched(data)
    \/ \E tag \in TagNames : PickTag(tag)
    \/ \E tag \in TagNames : UnpickTag(tag)
    \/ \E newValue \in BlankQueries : updateSearchQuery(newValue)

(***************************************************************************)
(* React PDF upload component                                              *)
(*                                                                         *)
(* batch is the latest uploadFiles invocation that passed the guards.  An  *)
(* invocation whose Promise.all has rejected may still have requests in    *)
(* flight; their results are discarded, so they are followed only until    *)
(* the next invocation starts.  uploadStatus.details, which is only        *)
(* displayed, is left out.                                                 *)
(***************************************************************************)

\* The longest selected-file list.
MaxFiles == 2

\* The files the user drops or picks: a PDF by its name only (upper case
\* extension, no MIME type), a PDF by its MIME type only, a text file, and a
\* file whose name ends in "pdf" without the dot.
FileUpperPdf == [name |-> <<"b", ".", "P", "D", "F">>, type |-> ""]
FileTypedPdf == [name |-> <<"c">>, type |-> "application/pdf"]
FileText == [name |-> <<"d", ".", "t", "x", "t">>, type |-> "text/plain"]
FileNoDot == [name |-> <<"p", "d", "f">>, type |-> ""]

\* What one drop or one file dialog delivers.
Drops ==
    {<<>>, <<FileText>>, <<FileNoDot, FileText>>, <<FileUpperPdf>>, <<FileTypedPdf>>,
     <<FileText, FileTypedPdf>>, <<FileUpperPdf, FileNoDot, FileTypedPdf>>}

UploadCollections == {"", "docs"}

LowerOf(c) ==
    CASE c = "P" -> "p"
      [] c = "D" -> "d"
      [] c = "F" -> "f"
      [] OTHER -> c

\* String.prototype.toLowerCase
ToLowerCase(s) == [k \in DOMAIN s |-> LowerOf(s[k])]

\* String.prototype.endsWith
EndsWith(s, suffix) ==
    /\ Len(s) >= Len(suffix)
    /\ SubSeq(s, Len(s) - Len(suffix) + 1, Len(s)) = suffix

\* A filter that forgets the dot of the extension.
IsPdfNoDot(file) ==
    file.type = "application/pdf" \/ EndsWith(ToLowerCase(file.name), <<"p", "d", "f">>)

\* file.type === 'application/pdf' || file.name.toLowerCase().endsWith('.pdf')
IsPdf(file) ==
    file.type = "application/pdf"
        \/ EndsWith(ToLowerCase(file.name), <<".", "p", "d", "f">>)

\* prevFiles.filter((_, i) => i !== index), index counted from 1
RemoveAt(s, index) == [k \in 1..(Len(s) - 1) |-> IF k < index THEN s[k] ELSE s[k + 1]]

NoStatus == [success |-> FALSE, message |-> "null", count |-> 0]
Failure(msg) == [success |-> FALSE, message |-> msg, count |-> 0]
Success(n) == [success |-> TRUE, message |-> "Successfully uploaded file(s).", count |-> n]

OnlyPdfMessage == "Only PDF files are allowed."
NoFilesMessage == "Please select at least one PDF file to upload."
NoCollectionMessage == "Please select a collection."
SomeFailedMessage == "Some files failed to upload. See details below."
UploadErrorMessage == "Error uploading files"

IdleBatch == [pc |-> "idle", files |-> <<>>, reqs |-> <<>>]

\* const handleFiles = (newFiles) => ...
handleFiles(newFiles) ==
    LET pdfFiles == SelectSeq(newFiles, IsPdf) IN
    IF Len(pdfFiles) = 0
    THEN /\ uploadStatus' = Failure(OnlyPdfMessage)
         /\ UNCHANGED <<files, isUploading, uploadCollection, batch, upPosts>>
    ELSE /\ Len(files) + Len(pdfFiles) <= MaxFiles
         /\ files' = files \o pdfFiles
         /\ uploadStatus' = NoStatus
         /\ UNCHANGED <<isUploading, uploadCollection, batch, upPosts>>

\* handleDrop and handleFileInputChange
DropFiles(newFiles) ==
    /\ handleFiles(newFiles)
    /\ UNCHANGED notUpload

\* const removeFile = (index) => ...
removeFile(index) ==
    /\ index \in 1..Len(files)
    /\ files' = RemoveAt(files, index)
    /\ UNCHANGED <<isUploading, uploadStatus, uploadCollection, batch, upPosts>>
    /\ UNCHANGED notUpload

\* handleCollectionChange
handleCollectionChange(c) ==
    /\ uploadCollection' = c
    /\ UNCHANGED <<files, isUploading, uploadStatus, batch, upPosts>>
    /\ UNCHANGED notUpload

\* uploadFiles after its guards, up to await Promise.all(...): every file's
\* async callback runs to its await fetch(...)
UploadStart ==
    /\ isUploading' = TRUE
    /\ uploadStatus' = NoStatus
    /\ batch' = [pc |-> "pending", files |-> files, reqs |-> [k \in DOMAIN files |-> "sent"]]
    /\ upPosts' = [k \in DOMAIN files |-> 1]
    /\ UNCHANGED <<files, uploadCollection>>

\* An uploadFiles that does not check the collection.
uploadFilesAnyCollection ==
    IF Len(files) = 0
    THEN /\ uploadStatus' = Failure(NoFilesMessage)
         /\ UNCHANGED <<files, isUploading, uploadCollection, batch, upPosts>>
    ELSE UploadStart

\* const uploadFiles = async () => ...
uploadFiles ==
    IF Len(files) = 0
    THEN /\ uploadStatus' = Failure(NoFilesMessage)
         /\ UNCHANGED <<files, isUploading, uploadCollection, batch, upPosts>>
    ELSE IF uploadCollection = ""
    THEN /\ uploadStatus' = Failure(NoCollectionMessage)
         /\ UNCHANGED <<files, isUploading, uploadCollection, batch, upPosts>>
    ELSE UploadStart

\* The Upload button, disabled while
\* isUploading || files.length === 0 || !selectedCollection
ClickUpload ==
    /\ ~(isUploading \/ Len(files) = 0 \/ uploadCollection = "")
    /\ uploadFiles
    /\ UNCHANGED notUpload

\* uploadFiles called whatever the button's state, while no invocation is
\* awaiting its Promise.all
CallUploadFiles ==
    /\ batch.pc # "pending"
    /\ uploadFiles
    /\ UNCHANGED notUpload

\* One file's callback settles, its fetch(...) and response.json() having
\* settled: it returns {success: response.ok} ("ok", "failed"), or it throws
\* because either await did ("thrown").
UploadRequestSettles(k, outcome) ==
    /\ k \in DOMAIN batch.reqs
    /\ batch.reqs[k] = "sent"
    /\ batch' = [batch EXCEPT !.reqs[k] = outcome]
    /\ UNCHANGED <<files, isUploading, uploadStatus, uploadCollection, upPosts>>
    /\ UNCHANGED notUpload

\* results.every(result => result.success)
AllSuccessful(results) == \A k \in DOMAIN results : results[k] = "ok"

\* A completion that clears the list whatever the results.
UploadResolvedAlwaysClear ==
    LET results == batch.reqs
        allSuccessful == AllSuccessful(results)
    IN /\ uploadStatus' =
            IF allSuccessful THEN Success(Len(results)) ELSE Failure(SomeFailedMessage)
       /\ files' = <<>>
       /\ isUploading' = FALSE
       /\ batch' = [batch EXCEPT !.pc = "resolved"]
       /\ UNCHANGED <<uploadCollection, upPosts>>

\* uploadFiles after await Promise.all(...) has resolved, and its finally
UploadResolved ==
    LET results == batch.reqs
        allSuccessful == AllSuccessful(results)
    IN /\ uploadStatus' =
            IF allSuccessful THEN Success(Len(results)) ELSE Failure(SomeFailedMessage)
       /\ files' = IF allSuccessful THEN <<>> ELSE files
       /\ isUploading' = FALSE
       /\ batch' = [batch EXCEPT !.pc = "resolved"]
       /\ UNCHANGED <<uploadCollection, upPosts>>

\* Promise.all resolves once every callback has returned.
BatchResolves ==
    /\ batch.pc = "pending"
    /\ \A k \in DOMAIN batch.reqs : batch.reqs[k] \in {"ok", "failed"}
    /\ UploadResolved
    /\ UNCHANGED notUpload

\* Promise.all rejects as soon as one callback has thrown: uploadFiles' catch
\* and finally run, while the other requests may still be in flight.
BatchRejects ==
    /\ batch.pc = "pending"
    /\ \E k \in DOMAIN batch.reqs : batch.reqs[k] = "thrown"
    /\ uploadStatus' = Failure(UploadErrorMessage)
    /\ isUploading' = FALSE
    /\ batch' = [batch EXCEPT !.pc = "rejected"]
    /\ UNCHANGED <<files, uploadCollection, upPosts>>
    /\ UNCHANGED notUpload

UploadBase ==
    /\ files = <<>>
    /\ isUploading = FALSE
    /\ uploadStatus = NoStatus
    /\ uploadCollection = ""
    /\ batch = IdleBatch
    /\ upPosts = <<>>

\* The component once mounted: fetchCollections has selected the first
\* collection when there is one.
UploadMounted ==
    /\ files = <<>>
    /\ isUploading = FALSE
    /\ uploadStatus = NoStatus
    /\ uploadCollection \in UploadCollections
    /\ batch = IdleBatch
    /\ upPosts = <<>>

NextUpload ==
    \/ \E newFiles \in Drops : DropFiles(newFiles)
    \/ \E index \in 1..MaxFiles : removeFile(index)
    \/ \E c \in UploadCollections : handleCollectionChange(c)
    \/ ClickUpload
    \/ \E k \in 1..MaxFiles, outcome \in {"ok", "failed", "thrown"} :
          UploadRequestSettles(k, outcome)
    \/ BatchResolves
    \/ BatchRejects

(***************************************************************************)
(* WebSocket chat                                                          *)
(***************************************************************************)

\* The most token messages of one answer, and the pieces of text they carry.
MaxTokens == 3
TokenTexts == {"x", "y"}

WsMessage(t, c) == [type |-> t, content |-> c]

\* The endpoint sends a message: the client will receive it in order.
WsSend(msg) ==
    /\ wsSent' = Append(wsSent, msg)
    /\ wsInbox' = Append(wsInbox, msg)

TokenCount(sent) == Cardinality({k \in DOMAIN sent : sent[k].type = "token"})

RECURSIVE Concat(_)
Concat(sent) ==
    IF sent = <<>> THEN <<>>
    ELSE IF Head(sent).type = "token" THEN <<Head(sent).content>> \o Concat(Tail(sent))
    ELSE Concat(Tail(sent))

\* chat_websocket: connect, send the chat message
ClientSendsChat ==
    /\ wsClient \in {"closed", "returned"}
    /\ wsServer \in {"idle", "finished"}
    /\ wsClient' = "receiving"
    /\ full_response' = <<>>
    /\ wsReturned' = "pending"
    /\ wsServer' = "received"
    /\ wsSent' = <<>>
    /\ wsInbox' = <<>>
    /\ UNCHANGED notWs

\* The endpoint answers the chat message with the start message.
ServerStart ==
    /\ wsServer = "received"
    /\ WsSend(WsMessage("start", "Generating response..."))
    /\ wsServer' = "streaming"
    /\ UNCHANGED <<wsClient, full_response, wsReturned>>
    /\ UNCHANGED notWs

\* An endpoint that goes on streaming after its closing message.
ServerTokenAnytime(t) ==
    /\ wsServer \in {"streaming", "finished"}
    /\ TokenCount(wsSent) < MaxTokens
    /\ WsSend(WsMessage("token", t))
    /\ UNCHANGED <<wsServer, wsClient, full_response, wsReturned>>
    /\ UNCHANGED notWs

\* The endpoint forwards a token of the LLM's stream.
ServerToken(t) ==
    /\ wsServer = "streaming"
    /\ TokenCount(wsSent) < MaxTokens
    /\ WsSend(WsMessage("token", t))
    /\ UNCHANGED <<wsServer, wsClient, full_response, wsReturned>>
    /\ UNCHANGED notWs

\* The stream has ended: the endpoint sends the complete message.
ServerComplete ==
    /\ wsServer = "streaming"
    /\ WsSend(WsMessage("complete", Concat(wsSent)))
    /\ wsServer' = "finished"
    /\ UNCHANGED <<wsClient, full_response, wsReturned>>
    /\ UNCHANGED notWs

\* The LLM call has failed: the endpoint sends the error message.
ServerError ==
    /\ wsServer = "streaming"
    /\ WsSend(WsMessage("error", "Error message"))
    /\ wsServer' = "finished"
    /\ UNCHANGED <<wsClient, full_response, wsReturned>>
    /\ UNCHANGED notWs

\* chat_websocket: one turn of its while True loop
ClientReceives ==
    /\ wsClient = "receiving"
    /\ wsInbox # <<>>
    /\ wsInbox' = Tail(wsInbox)
    /\ LET data == Head(wsInbox) IN
         CASE data.type = "token" ->
                /\ full_response' = full_response \o <<data.content>>
                /\ UNCHANGED <<wsClient, wsReturned>>
           [] data.type = "complete" ->
                /\ wsClient' = "returned"
                /\ wsReturned' = "content"
                /\ UNCHANGED full_response
           [] data.type = "error" ->
                /\ wsClient' = "returned"
                /\ wsReturned' = "None"
                /\ UNCHANGED full_response
           [] OTHER -> UNCHANGED <<wsClient, full_response, wsReturned>>
    /\ UNCHANGED <<wsServer, wsSent>>
    /\ UNCHANGED notWs

WsBase ==
    /\ wsServer = "idle"
    /\ wsSent = <<>>
    /\ wsInbox = <<>>
    /\ wsClient = "closed"
    /\ full_response = <<>>
    /\ wsReturned = "pending"

NextWs ==
    \/ ClientSendsChat
    \/ ServerStart
    \/ \E t \in TokenTexts : ServerToken(t)
    \/ ServerComplete
    \/ ServerError
    \/ ClientReceives

InitTab == page = "tabs" /\ TabStart /\ ChatBase /\ ConvBase /\ UploadBase /\ WsBase
InitChat == page = "chat" /\ TabBase /\ ChatStart /\ ConvBase /\ UploadBase /\ WsBase
InitUpload == page = "upload" /\ TabBase /\ ChatBase /\ ConvBase /\ UploadMounted /\ WsBase
InitWs == page = "ws" /\ TabBase /\ ChatBase /\ ConvBase /\ UploadBase /\ WsBase
InitConv == page = "conversations" /\ TabBase /\ ChatBase /\ ConvStart /\ UploadBase /\ WsBase
InitTags == page = "tags" /\ TabBase /\ ChatBase /\ ConvBase /\ UploadBase /\ WsBase
Init == InitTab \/ InitChat \/ InitUpload \/ InitWs

Next ==
    \/ page = "tabs" /\ NextTab
    \/ page = "chat" /\ NextChat
    \/ page = "upload" /\ NextUpload
    \/ page = "ws" /\ NextWs

SpecTab == InitTab /\ [][NextTab]_vars
SpecChat == InitChat /\ [][NextChat]_vars
SpecUpload == InitUpload /\ [][NextUpload]_vars
SpecUploadCall == InitUpload /\ [][NextUpload \/ CallUploadFiles]_vars
SpecWs == InitWs /\ [][NextWs]_vars
SpecConv == InitConv /\ [][NextConv]_vars
SpecTags == InitTags /\ [][NextTags]_vars
Spec == Init /\ [][Next]_vars

AssistantCount(h) == Cardinality({k \in DOMAIN h : h[k].role = "assistant"})

\* C4: when the chat endpoint answers a submitQuery request with a non-OK
\* status and a JSON body {"detail": d}, error is set to d when d is not
\* empty and to the fixed fallback message otherwise, and the handling of
\* that response adds no assistant message to conversationHistory.
ChatErrorSurfaced ==
    [][\A i \in Calls :
          /\ FetchSettles(i, "status") =>
                AssistantCount(conversationHistory') <= AssistantCount(conversationHistory)
          /\ \A d \in Details :
                JsonErrSettles(i, TRUE, d) =>
                    /\ error' = (IF d = "" THEN FallbackMessage ELSE d)
                    /\ conversationHistory' = conversationHistory]_vars

ChatErrorSurfacedWitness ==
    /\ chatLast.kind = "status"
    /\ error = "Collection not found"
    /\ calls[chatLast.call].pc = "done"

Ones(s) == [k \in DOMAIN s |-> 1]

\* C5: there is no retry. One invocation of submitQuery sends at most one POST
\* to /api/v1/chat/, one invocation of uploadFiles sends exactly one POST to
\* /api/v1/documents/upload per selected file, and no step other than a new
\* user action (Send, Enter, Upload) sends a request.
NoRetry ==
    [][/\ \A i \in Calls : chatPosts'[i] <= 1
       /\ chatPosts' # chatPosts => (ClickSend \/ PressEnter)
       /\ Cardinality({i \in Calls : chatPosts'[i] # chatPosts[i]}) <= 1
       /\ ClickUpload => upPosts' = Ones(files)
       /\ ~ClickUpload => upPosts' = upPosts]_vars

NoRetryWitness ==
    /\ batch.pc = "rejected"
    /\ batch.reqs = <<"thrown", "failed">>
    /\ upPosts = <<1, 1>>

\* C7: the endpoint answers a chat message with a start message, then zero or
\* more token messages, and ends with exactly one complete or error message,
\* after which it sends nothing for that chat message.
WsAnswerShape ==
    LET n == Len(wsSent)
        Closing(k) == wsSent[k].type \in {"complete", "error"}
    IN /\ wsServer \in {"streaming", "finished"} => n >= 1
       /\ n >= 1 => wsSent[1].type = "start"
       /\ \A k \in 2..n : wsSent[k].type \in {"token", "complete", "error"}
       /\ \A k \in 1..(n - 1) : ~Closing(k)
       /\ wsServer = "finished" <=> (n >= 1 /\ Closing(n))

WsAnswerShapeWitness ==
    /\ wsServer = "finished"
    /\ Len(wsSent) = 4
    /\ wsSent[4].type = "complete"
    /\ wsClient = "returned"
    /\ full_response = <<"x", "y">>

\* A PDF as the claim defines it: MIME type application/pdf, or a name whose
\* last four characters are ".pdf" in any case.
PdfFile(file) ==
    \/ file.type = "application/pdf"
    \/ LET n == Len(file.name) IN
         /\ n >= 4
         /\ file.name[n - 3] = "."
         /\ file.name[n - 2] \in {"p", "P"}
         /\ file.name[n - 1] \in {"d", "D"}
         /\ file.name[n] \in {"f", "F"}

\* C8: every entry of the selected-file list is a PDF, and a handleFiles call
\* whose input holds no PDF leaves the list unchanged and sets the status to
\* the failure 'Only PDF files are allowed.'.
SelectedFilesArePdf ==
    [][/\ \A k \in DOMAIN files' : PdfFile(files'[k])
       /\ \A newFiles \in Drops :
            (DropFiles(newFiles) /\ \A k \in DOMAIN newFiles : ~PdfFile(newFiles[k]))
                => (files' = files /\ uploadStatus' = Failure(OnlyPdfMessage))]_vars

SelectedFilesArePdfWitness ==
    /\ files = <<FileUpperPdf, FileTypedPdf>>
    /\ uploadStatus = Failure(OnlyPdfMessage)

\* C9: uploadFiles called with an empty file list, or with no collection
\* selected, sends no request, sets a failure upload status, and leaves
\* isUploading false and the file list unchanged.
UploadGuards ==
    [][(CallUploadFiles /\ (Len(files) = 0 \/ uploadCollection = ""))
          => /\ upPosts' = upPosts
             /\ batch' = batch
             /\ uploadStatus' \in {Failure(NoFilesMessage), Failure(NoCollectionMessage)}
             /\ isUploading' = FALSE
             /\ files' = files]_vars

UploadGuardsWitness ==
    /\ uploadStatus = Failure(NoCollectionMessage)
    /\ Len(files) = 2
    /\ ~isUploading
    /\ batch.pc = "idle"
    /\ upPosts = <<>>

\* C10: when an upload batch finishes, the selected-file list is emptied if
\* every file's upload response was OK and is left as it was if any upload
\* failed or an exception was thrown; the reported status is success exactly
\* in the all-OK case.
UploadCompletion ==
    [][/\ BatchResolves =>
            IF \A k \in DOMAIN batch.reqs : batch.reqs[k] = "ok"
            THEN files' = <<>> /\ uploadStatus'.success
            ELSE files' = files /\ ~uploadStatus'.success
       /\ BatchRejects => (files' = files /\ ~uploadStatus'.success)]_vars

UploadCompletionWitness ==
    /\ batch.pc = "resolved"
    /\ batch.reqs = <<"ok", "failed">>
    /\ files = batch.files
    /\ uploadStatus = Failure(SomeFailedMessage)

\* The requests of the batch that have not settled.
UnsettledRequests == {k \in DOMAIN batch.reqs : batch.reqs[k] = "sent"}

\* The browser settles every request and runs every continuation that is
\* ready: the event loop's scheduling of promise reactions.
SpecUploadFair ==
    /\ SpecUpload
    /\ \A k \in 1..MaxFiles :
          WF_vars(\E outcome \in {"ok", "failed", "thrown"} : UploadRequestSettles(k, outcome))
    /\ WF_vars(BatchResolves)
    /\ WF_vars(BatchRejects)

\* C11, first half: isUploading is true from the moment uploadFiles passes
\* its guards until every request of the batch has settled.
UploadingUntilSettled == UnsettledRequests # {} => isUploading

\* C11, second half: provided every request settles, isUploading is
\* eventually false again in every outcome.
UploadingEnds == isUploading ~> ~isUploading

\* The entries of the selected-file list that were added while the batch was
\* in flight and were not sent by it: handleFiles appends and removeFile only
\* shortens the list, so every entry beyond the length of the list the batch
\* sent was added after the batch started.
AddedInFlight == {k \in DOMAIN files : k > Len(batch.files)}

\* C12: a file that the user adds to the selected-file list while an upload
\* batch is in flight is never removed from the list by that batch's
\* completion without having been sent in an upload request.
AddedFilesKept ==
    [][(BatchResolves \/ BatchRejects) =>
          \A k \in AddedInFlight : k \in DOMAIN files' /\ files'[k] = files[k]]_vars

\* The component's state, without the record of the last step.
chatState ==
    <<variant, selectedCollection, queryText, conversationHistory, isLoading, error,
      currentConversationId, calls, nextCall, chatPosts, tagsInFlight>>

\* C13: submitQuery sends no request and changes no state unless canSubmit
\* holds: the query text is not blank after trimming and, in the collection
\* based component, a collection is selected.
SubmitNeedsCanSubmit ==
    [][/\ chatPosts' # chatPosts => canSubmit
       /\ ((ClickSend \/ PressEnter) /\ ~canSubmit) => chatState' = chatState]_vars

SubmitNeedsCanSubmitWitness ==
    /\ chatLast.kind = "rejected"
    /\ variant = "collection"
    /\ selectedCollection = ""
    /\ queryText = <<" ", "a">>
    /\ chatPosts = [i \in Calls |-> 0]

\* conversationHistory as submitQuery i found it, and as it left it after
\* adding the user message.
HistoryBefore(i) == calls[i].history
HistoryPushed(i) == Append(calls[i].history, UserMessage(calls[i].currentQuery))

\* The steps in which a failed submitQuery i finishes: its catch block, or
\* the end of its non-OK branch.
SubmitFails(i) ==
    \/ FetchSettles(i, "throw")
    \/ JsonOkSettles(i, FALSE)
    \/ \E parsed \in BOOLEAN, d \in Details : JsonErrSettles(i, parsed, d)

\* C14: if a chat request of the tag based component fails, by a non-OK
\* response or by a thrown exception (a failure to parse the error body
\* included), then when submitQuery finishes conversationHistory equals its
\* value before the submit and queryText was set back to the submitted query.
\* Stated for a submitQuery that is the only one in flight and during which
\* nothing else wrote the history: it is as this submitQuery pushed it, or as
\* its non-OK branch popped it.
FailedSubmitRestores ==
    [][\A i \in Calls :
          /\ variant = "tags"
          /\ SubmitFails(i)
          /\ \A j \in Calls \ {i} : calls[j].pc \in {"idle", "done"}
          /\ conversationHistory =
                (IF calls[i].pc = "jsonErr" THEN HistoryBefore(i) ELSE HistoryPushed(i))
          => /\ conversationHistory' = HistoryBefore(i)
             /\ calls[i].pc # "jsonErr" => queryText' = calls[i].currentQuery]_vars

\* The submitQuery invocations whose request has been sent and not answered.
RequestsInFlight == {i \in Calls : calls[i].pc = "fetch"}

\* C15: at most one chat request is in flight at any time: while isLoading is
\* true, neither the Send button nor the Enter key starts another submitQuery
\* request.
OneChatRequest ==
    [][/\ Cardinality(RequestsInFlight) <= 1
       /\ isLoading => chatPosts' = chatPosts]_vars

\* C16: a chat response that arrives after the user has switched to another
\* conversation (selectConversation completed, or startNewConversation) does
\* not overwrite the conversationHistory or the currentConversationId of the
\* conversation the user switched to.
ResponseAfterSwitch ==
    [][\A i \in Calls :
          (JsonOkSettles(i, TRUE) /\ i \in switched)
              => /\ conversationHistory' = conversationHistory
                 /\ currentConversationId' = currentConversationId]_vars

\* C17, first half: every tag-preference PUT the debounce timer sends for a
\* conversation carries the selection that was made while that conversation
\* was the current one.
DebouncedPutCarriesOwnTags ==
    TagUpdateTimeoutFires => selectedTags = tagsWhile[tagUpdateTimeout]

\* C17, second half, as what every step must keep for the PUT to follow: a
\* conversation whose selection differs from what the server holds for it has
\* the debounce timer pending for it.
UnsentTagsHaveTimer ==
    \A c \in ConversationIds : tagsWhile'[c] # serverTags'[c] => tagUpdateTimeout' = c

\* C17: every tag-preference PUT sent for a conversation C carries only tag
\* selections that the user made while C was the current conversation, and
\* every tag change made while C was current is eventually sent for C, even
\* when the user switches conversation or starts a new one within the 500 ms
\* debounce window.
TagPutsFaithful == [][DebouncedPutCarriesOwnTags /\ UnsentTagsHaveTimer]_vars

\* The tags availableTagsForSelection has to list.
UnselectedAvailable ==
    {availableTags[k] : k \in DOMAIN availableTags} \ {selectedTags[k] : k \in DOMAIN selectedTags}

\* The document count the claim gives a tag: the one in tagCounts, 0 when
\* there is none.
DocumentCount(tag) == IF tag \in DOMAIN tagCounts THEN tagCounts[tag] ELSE 0

\* The tag a comes before the tag b: a higher count, or the same count and a
\* name that comes first.
ListedBefore(a, b) ==
    \/ DocumentCount(a) > DocumentCount(b)
    \/ DocumentCount(a) = DocumentCount(b) /\ LocaleCompare(a, b) < 0

\* C18: with a blank search query, availableTagsForSelection lists exactly the
\* unselected available tags, ordered by document count descending (a missing
\* count is 0) and, for equal counts, by tag name ascending.
TagOptionsSorted ==
    LET options == availableTagsForSelection IN
    Len(Trim(tagSearchQuery)) = 0 =>
        /\ {options[k].item : k \in DOMAIN options} = UnselectedAvailable
        /\ Len(options) = Cardinality(UnselectedAvailable)
        /\ \A k \in 1..(Len(options) - 1) : ListedBefore(options[k].item, options[k + 1].item)

TagOptionsSortedWitness ==
    /\ tagSearchQuery = <<" ">>
    /\ availableTags = <<TagB, TagA, TagAb>>
    /\ tagCounts = [tag \in {TagB, TagAb} |-> IF tag = TagB THEN 1 ELSE 0]
    /\ selectedTags = <<>>
    /\ availableTagsForSelection = <<[item |-> TagB], [item |-> TagA], [item |-> TagAb]>>

====
